---- MODULE Spec2Model ----
(***************************************************************************)
(* State-machine model of the AIDriver MicroPython libraries:              *)
(*   lib/hm10_controller.py        HM10Controller (fixed-size BLE packets, *)
(*                                 staleness watchdog, telemetry limiter)  *)
(*   lib/gamepad_pico.py           GamePad (delimited Dabble frames)       *)
(*   lib/gamepad_driver_controller.py  GamepadAIDriverController.update    *)
(* Each object is driven by its own specification (SpecHM10 and           *)
(* SpecWatchdog, SpecTelemetry, SpecPad); the variables of the other       *)
(* objects keep their constructed values.                                  *)
(***************************************************************************)
EXTENDS Integers, Sequences, FiniteSets, TLC

VARIABLES
    \* ---- clock (time.ticks_ms) ----
    now,
    \* ---- HM10Controller fields ----
    _buffer, _buffer_index, flags, left_speed, right_speed, counter,
    last_command_ms, _last_telemetry_ms,
    \* ---- what the caller of HM10Controller observes ----
    last_call,       \* the last method called: "none", "poll" or "reset"
    poll_ret,        \* return value of the last poll(), as "True" or "False"; "none" before any call
    poll_decoded,    \* packets handed to _decode_packet by the last poll(), in order
    wire,            \* bytes sent by the BLE controller that uart.read() has not returned yet
    sent,            \* packets and bursts sent by the BLE controller so far
    last_decode_ms,  \* tick of the last _decode_packet call (construction before any)
    last_reset_ms,   \* tick of the last reset() call, -1 before any
    uart_tx,         \* payloads written by send_ultrasonic, in order
    send_ret,        \* return value of the last send_ultrasonic(), likewise
    send_arg,        \* distance_mm passed to the last send_ultrasonic()
    send_times,      \* ticks of the successful send_ultrasonic calls, in order
    \* ---- GamePad fields ----
    mode, value0, value, _frame, _in_frame,
    \* ---- what surrounds the GamePad ----
    pad_wire,        \* bytes sent by the app that the UART has not handed to poll() yet
    pad_sent,        \* byte strings the app has sent so far
    item,            \* the last byte string the app sent
    prev_item,       \* the byte string the app sent before `item`
    snap,            \* the GamePad fields when `item` was sent
    item_reads,      \* poll() calls that read at least one byte of `item`
    start_seen,      \* whether poll() has read a start marker yet
    calls,           \* the driver calls made by the last update(), in order
    \* ---- the flash filesystem and the eventlog module's globals ----
    files,           \* the files on flash: a function from path to the lines of the file
    _initialized,
    log_buffer,      \* eventlog's _buffer
    \* ---- what surrounds the eventlog module ----
    run,             \* number of the current run (the board restarts between runs)
    boot_files,      \* the files on flash when the current run started
    cleared,         \* whether clear_log() has been called in the current run
    logged,          \* whether log_event() or log_separator() has been called in the current run
    last_log,        \* the last eventlog call of the current run: the message of a
                     \* log_event(), else the function's name; "none" before any
    log_events,      \* log_event() calls so far
    log_separators,  \* log_separator() calls so far
    log_clears,      \* clear_log() calls so far
    last_write_ok,   \* whether the flash accepted writes during the last eventlog call
    call_order,      \* the messages logged and separators requested in the current
                     \* run, in call order
    \* ---- AIDriver fields: the two L298N objects ----
    motor_right, motor_left,
    \* ---- what the caller of AIDriver observes ----
    last_drive,      \* the last AIDriver method called, "none" before any
    driver_calls     \* AIDriver method calls so far

hmVars == <<_buffer, _buffer_index, flags, left_speed, right_speed, counter,
            last_command_ms, last_call, poll_ret, poll_decoded,
            wire, sent, last_decode_ms, last_reset_ms>>
telVars == <<_last_telemetry_ms, uart_tx, send_ret, send_arg, send_times>>
padVars == <<mode, value0, value, _frame, _in_frame, pad_wire, pad_sent, item,
             prev_item, snap, item_reads, start_seen, calls>>
logVars == <<files, _initialized, log_buffer, run, boot_files, cleared, logged,
             last_log, log_events, log_separators, log_clears, last_write_ok,
             call_order>>
drvVars == <<motor_right, motor_left, last_drive, driver_calls>>
vars == <<now, hmVars, telVars, padVars, logVars, drvVars>>

(***************************************************************************)
(* Bounds of the model.                                                    *)
(***************************************************************************)
\* the clock runs from tick 0 up to MaxTime (watchdog runs), MaxPollTime
\* (decoder runs) or MaxTelemetryTime (telemetry runs)
MaxTime == 3
MaxPollTime == 1
MaxTelemetryTime == 5
\* packets and bursts the BLE controller sends during one run
MaxSent == 2
\* byte strings the gamepad app sends during one run
MaxPadSent == 2
\* constructor arguments command_timeout_ms / telemetry_interval_ms
\* (defaults 500 / 200), instantiated small so that the clock can pass them
CommandTimeoutMs == 2
TelemetryIntervalMs == 2
MaxLogEvents == 3
MaxLogSeparators == 1
MaxLogClears == 1
MaxRuns == 3
MaxDriverCalls == 3

(***************************************************************************)
(* Program constants.                                                      *)
(***************************************************************************)
MaxBufferBytes == 64
TrimThreshold == 32
TELEMETRY_ULTRASONIC == 1
Byte == 0..255

\* what the BLE controller sends: 4-byte packets [flags, left, right, counter],
\* a legacy 3-byte packet, a stray byte, and long runs of one garbage byte
FullSpeedPacket == <<0, 127, 128, 5>>
BrakePacket == <<1, 120, 136, 6>>
LegacyPacket == <<0, 128, 127>>
StrayByte == <<255>>
Packets == {FullSpeedPacket, BrakePacket, LegacyPacket, StrayByte}
GarbageByte == 255
BurstLens == {TrimThreshold + 2, MaxBufferBytes + 1, MaxBufferBytes + 2}
Burst(n) == [i \in 1..n |-> GarbageByte]
Sendable == Packets \cup {Burst(n) : n \in BurstLens}

(***************************************************************************)
(* time.ticks_ms / time.ticks_diff                                         *)
(***************************************************************************)
\* a Python bool as the caller sees it
Ret(b) == IF b THEN "True" ELSE "False"

ticks_ms == now
ticks_diff(current, previous) == current - previous

(***************************************************************************)
(* hm10_controller.py: pure helpers                                        *)
(***************************************************************************)
_to_signed(byte_value) == IF byte_value >= 128 THEN byte_value - 256 ELSE byte_value

\* _expand_speed without the final clamp
_expand_speed_unclamped(byte_value) ==
    LET signed == _to_signed(byte_value)
        scaled0 == signed * 255
    IN  IF signed = 0 THEN 0
        ELSE IF scaled0 > 0 THEN (scaled0 + 63) \div 127
        ELSE -((-scaled0 + 63) \div 127)

\* _expand_speed that truncates instead of rounding
_expand_speed_truncating(byte_value) ==
    LET signed == _to_signed(byte_value)
        scaled0 == signed * 255
        scaled == IF scaled0 > 0 THEN scaled0 \div 127
                                 ELSE -((-scaled0) \div 127)
    IN  IF signed = 0 THEN 0
        ELSE IF scaled > 255 THEN 255
        ELSE IF scaled < -255 THEN -255
        ELSE scaled

_expand_speed(byte_value) ==
    LET signed == _to_signed(byte_value)
        scaled0 == signed * 255
        scaled == IF scaled0 > 0 THEN (scaled0 + 63) \div 127
                                 ELSE -((-scaled0 + 63) \div 127)
    IN  IF signed = 0 THEN 0
        ELSE IF scaled > 255 THEN 255
        ELSE IF scaled < -255 THEN -255
        ELSE scaled

\* the cached command as a record, as _decode_packet and reset write it
Command == [flags |-> flags, left_speed |-> left_speed, right_speed |-> right_speed,
            counter |-> counter, last_command_ms |-> last_command_ms]

\* _decode_packet that forgets to stamp last_command_ms
_decode_packet_unstamped(cmd, packet, t) ==
    [flags |-> packet[1],
     left_speed |-> _expand_speed(packet[2]),
     right_speed |-> _expand_speed(packet[3]),
     counter |-> IF Len(packet) > 3 THEN packet[4] ELSE cmd.counter,
     last_command_ms |-> cmd.last_command_ms]

_decode_packet(cmd, packet, t) ==
    [flags |-> packet[1],
     left_speed |-> _expand_speed(packet[2]),
     right_speed |-> _expand_speed(packet[3]),
     counter |-> IF Len(packet) > 3 THEN packet[4] ELSE cmd.counter,
     last_command_ms |-> t]

ResetCommand(t) ==
    [flags |-> 0, left_speed |-> 0, right_speed |-> 0, counter |-> 0,
     last_command_ms |-> t]

\* poll(), lines 108-114: the while loop over complete 4-byte packets
\* r = [idx, cmd, updated, log]: _buffer_index, the cached command, the local
\* `updated`, and the packets decoded so far

\* the loop written as an `if`: one packet per call
Decode4Once(buf, r, t) ==
    IF Len(buf) - r.idx >= 4
    THEN LET packet == SubSeq(buf, r.idx + 1, r.idx + 4)
         IN  [idx |-> r.idx + 4, cmd |-> _decode_packet(r.cmd, packet, t),
              updated |-> TRUE, log |-> Append(r.log, packet)]
    ELSE r

RECURSIVE Decode4Loop(_, _, _)
Decode4Loop(buf, r, t) ==
    IF Len(buf) - r.idx >= 4
    THEN LET packet == SubSeq(buf, r.idx + 1, r.idx + 4)
         IN  Decode4Loop(buf,
                         [idx |-> r.idx + 4, cmd |-> _decode_packet(r.cmd, packet, t),
                          updated |-> TRUE, log |-> Append(r.log, packet)],
                         t)
    ELSE r

\* the 3-byte fallback without the `not updated` test
LegacyFallbackAlways(buf, r, t) ==
    IF Len(buf) - r.idx >= 3
    THEN LET packet == SubSeq(buf, r.idx + 1, r.idx + 3)
         IN  [idx |-> r.idx + 3, cmd |-> _decode_packet(r.cmd, packet, t),
              updated |-> TRUE, log |-> Append(r.log, packet)]
    ELSE r

\* poll(), lines 116-122: the 3-byte fallback
LegacyFallback(buf, r, t) ==
    IF ~r.updated /\ Len(buf) - r.idx >= 3
    THEN LET packet == SubSeq(buf, r.idx + 1, r.idx + 3)
         IN  [idx |-> r.idx + 3, cmd |-> _decode_packet(r.cmd, packet, t),
              updated |-> TRUE, log |-> Append(r.log, packet)]
    ELSE r

\* the trim that clears a fully consumed buffer but keeps the index
TrimBuffer_keeps_index(buf, idx) ==
    IF idx # 0
    THEN IF idx >= Len(buf) THEN [buf |-> <<>>, idx |-> idx]
         ELSE IF idx > TrimThreshold
              THEN [buf |-> SubSeq(buf, idx + 1, Len(buf)), idx |-> 0]
              ELSE [buf |-> buf, idx |-> idx]
    ELSE [buf |-> buf, idx |-> idx]

\* poll(), lines 125-131: drop the consumed prefix
TrimBuffer(buf, idx) ==
    IF idx # 0
    THEN IF idx >= Len(buf) THEN [buf |-> <<>>, idx |-> 0]
         ELSE IF idx > TrimThreshold
              THEN [buf |-> SubSeq(buf, idx + 1, Len(buf)), idx |-> 0]
              ELSE [buf |-> buf, idx |-> idx]
    ELSE [buf |-> buf, idx |-> idx]

\* the overflow test that fires on any byte left in the buffer
Overflowed_any_leftover(buf) == Len(buf) > 0

\* poll(), line 133: the overflow test
Overflowed(buf) == Len(buf) > MaxBufferBytes

\* the whole of poll() on the bytes uart.read() returned
PollOutcome(buf0, idx0, cmd0, data, t) ==
    LET buf == buf0 \o data
        r4 == Decode4Loop(buf, [idx |-> idx0, cmd |-> cmd0, updated |-> FALSE,
                                log |-> <<>>], t)
        r  == LegacyFallback(buf, r4, t)
        tr == TrimBuffer(buf, r.idx)
        ov == Overflowed(tr.buf)
    IN  [buf |-> IF ov THEN <<>> ELSE tr.buf,
         idx |-> IF ov THEN 0 ELSE tr.idx,
         cmd |-> IF ov THEN ResetCommand(t) ELSE r.cmd,
         updated |-> r.updated,
         log |-> r.log,
         reset |-> ov]

\* is_brake_requested reading bit 1 instead of bit 0
is_brake_requested_bit1 == ((flags \div 2) % 2) = 1

is_brake_requested == (flags % 2) = 1

\* is_stale with the timeout off by one
is_stale_late == ticks_diff(ticks_ms, last_command_ms) > CommandTimeoutMs + 1

\* is_stale with >= for >
is_stale_inclusive == ticks_diff(ticks_ms, last_command_ms) >= CommandTimeoutMs

is_stale == ticks_diff(ticks_ms, last_command_ms) > CommandTimeoutMs

\* the rate limit with <= for <
RateLimitedInclusive(t) == ticks_diff(t, _last_telemetry_ms) <= TelemetryIntervalMs

\* send_ultrasonic(), line 166: the rate limit
RateLimited(t) == ticks_diff(t, _last_telemetry_ms) < TelemetryIntervalMs

Min(a, b) == IF a < b THEN a ELSE b
Max(a, b) == IF a > b THEN a ELSE b

\* the payload without the clamp of line 170
TelemetryPayload_unclamped(distance_mm) ==
    LET d == distance_mm
    IN  <<TELEMETRY_ULTRASONIC, (d \div 256) % 256, d % 256>>

\* send_ultrasonic(), lines 170-174: the 3-byte payload
TelemetryPayload(distance_mm) ==
    LET d == Max(0, Min(distance_mm, 65535))
    IN  <<TELEMETRY_ULTRASONIC, (d \div 256) % 256, d % 256>>

(***************************************************************************)
(* The motion translator for the fixed-packet protocol: brake flag set, or *)
(* command stale, stops both wheels; otherwise each wheel turns by the     *)
(* sign of its speed (the right motor is wired the other way round) with   *)
(* magnitude abs(speed) clamped to 0..255.                                 *)
(***************************************************************************)
Abs(x) == IF x < 0 THEN -x ELSE x

StopWheel == [dir |-> "stop", magnitude |-> 0]

WheelCommand(speed, positive, negative) ==
    [dir |-> IF speed >= 0 THEN positive ELSE negative,
     magnitude |-> Min(Abs(speed), 255)]

MotionOutput ==
    IF is_brake_requested \/ is_stale
    THEN [left |-> StopWheel, right |-> StopWheel]
    ELSE [left |-> WheelCommand(left_speed, "forward", "backward"),
          right |-> WheelCommand(right_speed, "backward", "forward")]

\* distances handed to send_ultrasonic
Distances == {-5, 0, 300, 65535, 65536, 70000}


(***************************************************************************)
(* gamepad_pico.py                                                         *)
(***************************************************************************)
GAMEPAD_DIGITAL == 1
GAMEPAD_ANALOG == 2
GAMEPAD_ACCL == 3
START_BIT == 0
UP_BIT == 0
DOWN_BIT == 1
LEFT_BIT == 2
RIGHT_BIT == 3
START_OF_FRAME == 192
END_OF_FRAME == 193
GAMEPAD_ID == 1
MinFrameLen == 6

\* 2 ** n and `v & (1 << bit)` as a bool
RECURSIVE Pow2(_)
Pow2(n) == IF n = 0 THEN 1 ELSE 2 * Pow2(n - 1)
BitSet(v, bit) == (v \div Pow2(bit)) % 2 = 1

\* the GamePad fields as a record
Pad == [mode |-> mode, value0 |-> value0, value |-> value, frame |-> _frame,
        in_frame |-> _in_frame]

\* _process_frame without the module id test
_process_frame_any_module(p, buf) ==
    IF Len(buf) < MinFrameLen THEN p
    ELSE IF buf[2] = GAMEPAD_DIGITAL
         THEN [p EXCEPT !.mode = 0, !.value0 = buf[5], !.value = buf[6]]
    ELSE IF buf[2] \in {GAMEPAD_ANALOG, GAMEPAD_ACCL}
         THEN [p EXCEPT !.mode = 1, !.value0 = buf[5], !.value = buf[6]]
    ELSE p

\* _process_frame that zeroes the decoded state on a frame it does not accept
_process_frame_clears_on_bad(p, buf) ==
    IF Len(buf) < MinFrameLen THEN [p EXCEPT !.mode = 0, !.value0 = 0, !.value = 0]
    ELSE IF buf[1] # GAMEPAD_ID THEN [p EXCEPT !.mode = 0, !.value0 = 0, !.value = 0]
    ELSE IF buf[2] = GAMEPAD_DIGITAL
         THEN [p EXCEPT !.mode = 0, !.value0 = buf[5], !.value = buf[6]]
    ELSE IF buf[2] \in {GAMEPAD_ANALOG, GAMEPAD_ACCL}
         THEN [p EXCEPT !.mode = 1, !.value0 = buf[5], !.value = buf[6]]
    ELSE [p EXCEPT !.mode = 0, !.value0 = 0, !.value = 0]

\* GamePad._process_frame(buf)
_process_frame(p, buf) ==
    IF Len(buf) < MinFrameLen THEN p
    ELSE IF buf[1] # GAMEPAD_ID THEN p
    ELSE IF buf[2] = GAMEPAD_DIGITAL
         THEN [p EXCEPT !.mode = 0, !.value0 = buf[5], !.value = buf[6]]
    ELSE IF buf[2] \in {GAMEPAD_ANALOG, GAMEPAD_ACCL}
         THEN [p EXCEPT !.mode = 1, !.value0 = buf[5], !.value = buf[6]]
    ELSE p

\* the loop body with the start-marker test dropped: any byte opens a frame
poll_byte_any_start(p, byte) ==
    IF ~p.in_frame
    THEN [p EXCEPT !.frame = <<>>, !.in_frame = TRUE]
    ELSE IF byte = END_OF_FRAME
         THEN [_process_frame(p, p.frame) EXCEPT !.in_frame = FALSE]
    ELSE [p EXCEPT !.frame = Append(p.frame, byte)]

\* the loop body that stays in the frame when the closed frame does not parse
poll_byte_retry_bad_frame(p, byte) ==
    IF ~p.in_frame
    THEN IF byte = START_OF_FRAME
         THEN [p EXCEPT !.frame = <<>>, !.in_frame = TRUE]
         ELSE p
    ELSE IF byte = END_OF_FRAME
         THEN [_process_frame(p, p.frame)
                   EXCEPT !.in_frame = (Len(p.frame) < MinFrameLen
                                            \/ p.frame[1] # GAMEPAD_ID)]
    ELSE [p EXCEPT !.frame = Append(p.frame, byte)]

\* GamePad.poll(), lines 44-54: the loop body for one byte
poll_byte(p, byte) ==
    IF ~p.in_frame
    THEN IF byte = START_OF_FRAME
         THEN [p EXCEPT !.frame = <<>>, !.in_frame = TRUE]
         ELSE p
    ELSE IF byte = END_OF_FRAME
         THEN [_process_frame(p, p.frame) EXCEPT !.in_frame = FALSE]
    ELSE [p EXCEPT !.frame = Append(p.frame, byte)]

RECURSIVE poll_bytes(_, _)
poll_bytes(p, data) ==
    IF data = <<>> THEN p ELSE poll_bytes(poll_byte(p, Head(data)), Tail(data))

\* a poll() that starts every call outside a frame
GamePad_poll_fresh(p, data) ==
    poll_bytes([p EXCEPT !.frame = <<>>, !.in_frame = FALSE], data)

\* GamePad.poll() when the UART holds `data`
GamePad_poll(p, data) == poll_bytes(p, data)

is_start_pressed(p) == BitSet(p.value0, START_BIT)
is_up_pressed(p) == p.mode = 0 /\ BitSet(p.value, UP_BIT)
is_down_pressed(p) == p.mode = 0 /\ BitSet(p.value, DOWN_BIT)
is_left_pressed(p) == p.mode = 0 /\ BitSet(p.value, LEFT_BIT)
is_right_pressed(p) == p.mode = 0 /\ BitSet(p.value, RIGHT_BIT)
get_angle(p) == IF p.mode = 0 THEN 0 ELSE (p.value \div 8) * 15
get_radius(p) == IF p.mode = 0 THEN 0 ELSE p.value % 8

(***************************************************************************)
(* gamepad_driver_controller.py, with the constructor's default speeds     *)
(***************************************************************************)
max_speed == 255
min_speed == 60
turn_speed == 180

\* _analog_to_speed without the radius 0 case
_analog_to_speed_no_zero(radius) ==
    (min_speed * 7 + (max_speed - min_speed) * radius) \div 7

\* int(min_speed + (max_speed - min_speed) * (radius / 7))
_analog_to_speed(radius) ==
    IF radius = 0 THEN 0
    ELSE (min_speed * 7 + (max_speed - min_speed) * radius) \div 7

(***************************************************************************)
(* The floating-point part of update(), lines 83-93, tabulated with        *)
(* IEEE-754 doubles for the angles 0, 15, ..., 465 that get_angle() can     *)
(* return (row angle / 15 + 1) and, for the wheel speeds, the radii 1..7:  *)
(*   SinClass / CosClass   -1 when y (x) < -0.5, 1 when y (x) > 0.5, else 0*)
(*   TankLeft / TankRight  int(speed * left_speed / max_mag) and the same  *)
(*                         for right_speed, speed = _analog_to_speed(radius)*)
(***************************************************************************)
SinClass ==
    <<0, 0, 0, 1, 1, 1, 1, 1, 1, 1, 0, 0, 0, 0, -1, -1, -1, -1, -1, -1, -1, -1, -1, 0, 0, 0, 0, 1, 1, 1, 1, 1>>

CosClass ==
    <<1, 1, 1, 1, 1, 0, 0, 0, 0, -1, -1, -1, -1, -1, -1, -1, -1, 0, 0, 0, 1, 1, 1, 1, 1, 1, 1, 1, 0, 0, 0, 0>>

TankLeft ==
    <<<<87, 115, 143, 171, 199, 227, 255>>,
      <<87, 114, 143, 171, 199, 227, 255>>,
      <<87, 114, 143, 171, 199, 226, 255>>,
      <<87, 115, 143, 171, 199, 227, 255>>,
      <<87, 115, 143, 171, 199, 227, 255>>,
      <<87, 114, 143, 171, 199, 227, 255>>,
      <<87, 115, 143, 171, 199, 227, 255>>,
      <<50, 66, 82, 98, 114, 131, 147>>,
      <<23, 30, 38, 45, 53, 60, 68>>,
      <<0, 0, 0, 0, 0, 0, 0>>,
      <<-23, -30, -38, -45, -53, -60, -68>>,
      <<-50, -66, -82, -98, -114, -131, -147>>,
      <<-86, -114, -142, -170, -198, -226, -254>>,
      <<-87, -115, -143, -171, -199, -227, -255>>,
      <<-87, -115, -143, -171, -199, -227, -255>>,
      <<-87, -115, -143, -171, -198, -227, -255>>,
      <<-87, -115, -143, -171, -199, -227, -255>>,
      <<-87, -114, -143, -171, -199, -227, -255>>,
      <<-87, -115, -143, -171, -199, -227, -255>>,
      <<-50, -66, -82, -98, -114, -131, -147>>,
      <<-23, -30, -38, -45, -53, -60, -68>>,
      <<0, 0, 0, 0, 0, 0, 0>>,
      <<23, 30, 38, 45, 53, 60, 68>>,
      <<50, 66, 82, 98, 114, 131, 147>>,
      <<86, 114, 142, 170, 198, 226, 254>>,
      <<87, 114, 143, 171, 199, 227, 255>>,
      <<87, 114, 143, 171, 199, 226, 255>>,
      <<87, 115, 143, 171, 199, 227, 255>>,
      <<87, 114, 143, 171, 199, 226, 255>>,
      <<87, 114, 143, 171, 199, 227, 255>>,
      <<87, 115, 143, 171, 199, 227, 255>>,
      <<50, 66, 82, 98, 114, 131, 147>>>>

TankRight ==
    <<<<-87, -115, -143, -171, -199, -227, -255>>,
      <<-50, -66, -82, -98, -114, -131, -147>>,
      <<-23, -30, -38, -45, -53, -60, -68>>,
      <<0, 0, 0, 0, 0, 0, 0>>,
      <<23, 30, 38, 45, 53, 60, 68>>,
      <<50, 66, 82, 98, 114, 131, 147>>,
      <<86, 114, 142, 170, 198, 226, 254>>,
      <<87, 115, 143, 171, 199, 227, 255>>,
      <<87, 114, 143, 171, 199, 226, 255>>,
      <<87, 115, 143, 171, 199, 227, 255>>,
      <<87, 114, 143, 171, 199, 226, 255>>,
      <<87, 115, 143, 171, 199, 227, 255>>,
      <<87, 115, 143, 171, 199, 227, 255>>,
      <<50, 66, 82, 98, 114, 131, 147>>,
      <<23, 30, 38, 45, 53, 60, 68>>,
      <<0, 0, 0, 0, 0, 0, 0>>,
      <<-23, -30, -38, -45, -53, -60, -68>>,
      <<-50, -66, -82, -98, -114, -131, -147>>,
      <<-86, -114, -142, -170, -198, -226, -254>>,
      <<-87, -114, -143, -171, -199, -227, -255>>,
      <<-87, -115, -143, -171, -199, -227, -255>>,
      <<-87, -115, -143, -171, -199, -227, -255>>,
      <<-87, -115, -143, -171, -199, -227, -255>>,
      <<-87, -114, -143, -171, -199, -227, -255>>,
      <<-87, -115, -143, -171, -199, -227, -255>>,
      <<-50, -66, -82, -98, -114, -131, -147>>,
      <<-23, -30, -38, -45, -53, -60, -68>>,
      <<0, 0, 0, 0, 0, 0, 0>>,
      <<23, 30, 38, 45, 53, 60, 68>>,
      <<50, 66, 82, 98, 114, 131, 147>>,
      <<86, 114, 142, 170, 198, 226, 254>>,
      <<87, 115, 143, 171, 199, 227, 255>>>>

Call(op, args) == [op |-> op, args |-> args]

\* update() with the d-pad tested before START
update_calls_dpad_first(p) ==
    IF is_up_pressed(p) THEN <<Call("drive_forward", <<max_speed, max_speed>>)>>
    ELSE IF is_down_pressed(p) THEN <<Call("drive_backward", <<max_speed, max_speed>>)>>
    ELSE IF is_left_pressed(p) THEN <<Call("rotate_left", <<turn_speed>>)>>
    ELSE IF is_right_pressed(p) THEN <<Call("rotate_right", <<turn_speed>>)>>
    ELSE <<Call("brake", <<>>)>>

\* the analog stick without abs() around the wheel speeds
analog_calls_no_abs(p) ==
    LET row == get_angle(p) \div 15 + 1
        radius == get_radius(p)
        speed == _analog_to_speed(radius)
    IN  IF speed < min_speed THEN <<Call("brake", <<>>)>>
        ELSE LET left == TankLeft[row][radius]
                 right == TankRight[row][radius]
             IN  IF SinClass[row] = -1
                 THEN <<Call("drive_backward", <<right, left>>)>>
                 ELSE IF SinClass[row] = 1
                 THEN <<Call("drive_forward", <<right, left>>)>>
                 ELSE IF CosClass[row] = -1
                 THEN <<Call("rotate_left", <<turn_speed>>)>>
                 ELSE IF CosClass[row] = 1
                 THEN <<Call("rotate_right", <<turn_speed>>)>>
                 ELSE <<Call("brake", <<>>)>>

\* update(), lines 69-106: the analog stick
analog_calls(p) ==
    LET row == get_angle(p) \div 15 + 1
        radius == get_radius(p)
        speed == _analog_to_speed(radius)
    IN  IF speed < min_speed THEN <<Call("brake", <<>>)>>
        ELSE LET left == TankLeft[row][radius]
                 right == TankRight[row][radius]
             IN  IF SinClass[row] = -1
                 THEN <<Call("drive_backward", <<Abs(right), Abs(left)>>)>>
                 ELSE IF SinClass[row] = 1
                 THEN <<Call("drive_forward", <<Abs(right), Abs(left)>>)>>
                 ELSE IF CosClass[row] = -1
                 THEN <<Call("rotate_left", <<turn_speed>>)>>
                 ELSE IF CosClass[row] = 1
                 THEN <<Call("rotate_right", <<turn_speed>>)>>
                 ELSE <<Call("brake", <<>>)>>

\* update() with down tested before up
update_calls_down_first(p) ==
    IF is_start_pressed(p) THEN <<Call("brake", <<>>)>>
    ELSE IF is_down_pressed(p) THEN <<Call("drive_backward", <<max_speed, max_speed>>)>>
    ELSE IF is_up_pressed(p) THEN <<Call("drive_forward", <<max_speed, max_speed>>)>>
    ELSE IF is_left_pressed(p) THEN <<Call("rotate_left", <<turn_speed>>)>>
    ELSE IF is_right_pressed(p) THEN <<Call("rotate_right", <<turn_speed>>)>>
    ELSE IF p.mode # 0 THEN analog_calls(p)
    ELSE <<Call("brake", <<>>)>>

\* update() without the final brake
update_calls_no_default(p) ==
    IF is_start_pressed(p) THEN <<Call("brake", <<>>)>>
    ELSE IF is_up_pressed(p) THEN <<Call("drive_forward", <<max_speed, max_speed>>)>>
    ELSE IF is_down_pressed(p) THEN <<Call("drive_backward", <<max_speed, max_speed>>)>>
    ELSE IF is_left_pressed(p) THEN <<Call("rotate_left", <<turn_speed>>)>>
    ELSE IF is_right_pressed(p) THEN <<Call("rotate_right", <<turn_speed>>)>>
    ELSE IF p.mode # 0 THEN analog_calls(p)
    ELSE <<>>

\* update(), lines 50-109: the driver calls made once the gamepad is polled
update_calls(p) ==
    IF is_start_pressed(p) THEN <<Call("brake", <<>>)>>
    ELSE IF is_up_pressed(p) THEN <<Call("drive_forward", <<max_speed, max_speed>>)>>
    ELSE IF is_down_pressed(p) THEN <<Call("drive_backward", <<max_speed, max_speed>>)>>
    ELSE IF is_left_pressed(p) THEN <<Call("rotate_left", <<turn_speed>>)>>
    ELSE IF is_right_pressed(p) THEN <<Call("rotate_right", <<turn_speed>>)>>
    ELSE IF p.mode # 0 THEN analog_calls(p)
    ELSE <<Call("brake", <<>>)>>

\* what the app sends: frames [module, function, arg count, len0, value0, value]
\* between the markers, and damaged ones
Frame(function_id, v0, v) ==
    <<START_OF_FRAME, GAMEPAD_ID, function_id, 1, 2, v0, v, END_OF_FRAME>>
WellFormed == {Frame(f, v0, v) : f \in {GAMEPAD_DIGITAL, GAMEPAD_ANALOG},
                                 v0 \in {0, 1}, v \in {1, 8, 55}}
NoStartMarker == <<GAMEPAD_ID, GAMEPAD_ID, GAMEPAD_DIGITAL, 1, 2, 1, 8, END_OF_FRAME>>
ShortFrame == <<START_OF_FRAME, GAMEPAD_ID, GAMEPAD_DIGITAL, END_OF_FRAME>>
WrongModule == <<START_OF_FRAME, 2, GAMEPAD_DIGITAL, 1, 2, 1, 8, END_OF_FRAME>>
NoEndMarker == <<START_OF_FRAME, GAMEPAD_ID, GAMEPAD_DIGITAL, 1, 2, 1, 8>>
\* arg count 2 and arg length 3 announced, two payload bytes present
LengthMismatch == <<START_OF_FRAME, GAMEPAD_ID, GAMEPAD_DIGITAL, 2, 3, 1, 8, END_OF_FRAME>>
Malformed == {ShortFrame, WrongModule}
\* a start marker and data bytes that never reach an end marker
Flood(n) == [i \in 1..n |-> 0]
UnterminatedStart == <<START_OF_FRAME>> \o Flood(TrimThreshold)
FloodItems == {UnterminatedStart, Flood(TrimThreshold + 1), Frame(GAMEPAD_DIGITAL, 0, 1)}
\* several frames sent back to back, some of them of an unknown function, of
\* another module or too short
UnknownFunction == Frame(4, 1, 8)
Up == Frame(GAMEPAD_DIGITAL, 0, 1)
StickForward == Frame(GAMEPAD_ANALOG, 0, 55)
Batches == {<<Up, StickForward>>, <<StickForward, Up>>, <<Up, UnknownFunction>>,
            <<StickForward, WrongModule>>, <<StickForward, ShortFrame>>,
            <<Up, StickForward, UnknownFunction>>, <<UnknownFunction, WrongModule>>}
RECURSIVE Concat(_)
Concat(frames) == IF frames = <<>> THEN <<>> ELSE Head(frames) \o Concat(Tail(frames))
BatchItems == {Concat(frames) : frames \in Batches}
\* two length-prefixed one-byte arguments a and b, the layout of the frames in
\* tests/test_gamepad_pico.py
TwoArgFrame(function_id, a, b) ==
    <<START_OF_FRAME, GAMEPAD_ID, function_id, 2, 1, a, 1, b, END_OF_FRAME>>
TwoArgFrames == {TwoArgFrame(GAMEPAD_DIGITAL, 1, 8), TwoArgFrame(GAMEPAD_ANALOG, 0, 29)}
\* analog frames with the payload bytes (25 << 3) | 7 and (14 << 3) | 7, and the
\* digital frame of a released pad
WideAngle == Frame(GAMEPAD_ANALOG, 0, 207)
Angle210 == Frame(GAMEPAD_ANALOG, 0, 119)
Released == Frame(GAMEPAD_DIGITAL, 0, 0)
PadItems == WellFormed \cup {NoStartMarker, ShortFrame, WrongModule, NoEndMarker,
                             LengthMismatch, WideAngle, Angle210, Released}
                      \cup TwoArgFrames

(***************************************************************************)
(* eventlog.py: the two-file event logger.  A file is the sequence of its  *)
(* lines; a line carries its text and the run that wrote it.  The elapsed  *)
(* time in front of a message is not modelled, and every filesystem        *)
(* operation other than os.rename succeeds.                                *)
(***************************************************************************)
_LOG_PATH == "event_log.txt"
_LOG_PREV_PATH == "event_log_prev.txt"
_LOG_ENABLED == TRUE
BUFFERED == TRUE
\* the buffer size that triggers a flush: 10 in the source, kept small here
BUFFER_MAX == 3

\* a flash with no files on it
NoFiles == [path \in {} |-> <<>>]

\* os.stat(path)[6] > 0, False for a missing file
HasContent(fs, path) == path \in DOMAIN fs /\ Len(fs[path]) > 0

\* open(path, "w") followed by the writes of `lines`
WriteFile(fs, path, lines) ==
    [q \in DOMAIN fs \cup {path} |-> IF q = path THEN lines ELSE fs[q]]

\* open(path, "a") followed by the writes of `lines`
AppendFile(fs, path, lines) ==
    WriteFile(fs, path, (IF path \in DOMAIN fs THEN fs[path] ELSE <<>>) \o lines)

\* os.remove(path), its OSError for a missing file swallowed
RemoveFile(fs, path) == [q \in DOMAIN fs \ {path} |-> fs[q]]

\* os.rename(from, to) of an existing file
RenameFile(fs, from, to) ==
    [q \in (DOMAIN fs \ {from}) \cup {to} |-> IF q = to THEN fs[from] ELSE fs[q]]

\* a line written by run r
Line(r, text) == [run |-> r, text |-> text]

\* the two lines _rotate_logs writes to the fresh file
Header(r) == <<Line(r, "===== RUN START ====="), Line(r, "t+0.00s : robot start")>>

\* the three lines log_separator writes
SeparatorText == "===== SEPARATOR ====="
Separator(r) == <<Line(r, ""), Line(r, SeparatorText),
                  Line(r, "t+0.00s : timing reset")>>

\* the module's state as one value
LogState == [files |-> files, initialized |-> _initialized, buffer |-> log_buffer]

\* _rotate_logs without the _initialized guard
_rotate_logs_every_call(s, rename_ok, write_ok) ==
    LET fs == s.files
        removed == RemoveFile(fs, _LOG_PREV_PATH)
        moved == IF ~HasContent(fs, _LOG_PATH) THEN fs
                 ELSE IF rename_ok THEN RenameFile(removed, _LOG_PATH, _LOG_PREV_PATH)
                 ELSE IF write_ok
                 THEN RemoveFile(WriteFile(removed, _LOG_PREV_PATH, removed[_LOG_PATH]),
                                 _LOG_PATH)
                 ELSE removed
    IN  [s EXCEPT !.initialized = TRUE,
                  !.files = IF write_ok THEN WriteFile(moved, _LOG_PATH, Header(run))
                                        ELSE moved]

\* _rotate_logs(), lines 36-89; rename_ok tells whether os.rename succeeds,
\* write_ok whether the files can be opened for writing during this call
_rotate_logs(s, rename_ok, write_ok) ==
    IF s.initialized THEN s
    ELSE LET fs == s.files
             removed == RemoveFile(fs, _LOG_PREV_PATH)
             moved == IF ~HasContent(fs, _LOG_PATH) THEN fs
                      ELSE IF rename_ok
                      THEN RenameFile(removed, _LOG_PATH, _LOG_PREV_PATH)
                      ELSE IF write_ok
                      THEN RemoveFile(WriteFile(removed, _LOG_PREV_PATH,
                                                removed[_LOG_PATH]),
                                      _LOG_PATH)
                      ELSE removed
         IN  [s EXCEPT !.initialized = TRUE,
                       !.files = IF write_ok THEN WriteFile(moved, _LOG_PATH, Header(run))
                                             ELSE moved]

\* flush that empties the buffer even when the write fails
flush_drops_on_failure(s, rename_ok, write_ok) ==
    IF s.buffer = <<>> THEN s
    ELSE LET r == _rotate_logs(s, rename_ok, write_ok)
         IN  IF write_ok
             THEN [r EXCEPT !.files = AppendFile(r.files, _LOG_PATH, r.buffer),
                            !.buffer = <<>>]
             ELSE [r EXCEPT !.buffer = <<>>]

\* flush(), lines 162-179
flush(s, rename_ok, write_ok) ==
    IF s.buffer = <<>> THEN s
    ELSE LET r == _rotate_logs(s, rename_ok, write_ok)
         IN  IF write_ok
             THEN [r EXCEPT !.files = AppendFile(r.files, _LOG_PATH, r.buffer),
                            !.buffer = <<>>]
             ELSE r

\* log_event(message), lines 135-159
log_event(s, message, rename_ok, write_ok) ==
    IF ~_LOG_ENABLED THEN s
    ELSE LET r == _rotate_logs(s, rename_ok, write_ok)
             line == Line(run, message)
         IN  IF BUFFERED
             THEN LET b == [r EXCEPT !.buffer = Append(r.buffer, line)]
                  IN  IF BUFFER_MAX > 0 /\ Len(b.buffer) >= BUFFER_MAX
                      THEN flush(b, rename_ok, write_ok)
                      ELSE b
             ELSE IF write_ok
                  THEN [r EXCEPT !.files = AppendFile(r.files, _LOG_PATH, <<line>>)]
                  ELSE r

\* log_separator(), lines 116-132
log_separator(s, rename_ok, write_ok) ==
    IF ~_LOG_ENABLED THEN s
    ELSE LET r == _rotate_logs(s, rename_ok, write_ok)
         IN  IF write_ok
             THEN [r EXCEPT !.files = AppendFile(r.files, _LOG_PATH, Separator(run))]
             ELSE r

\* clear_log(), lines 98-113
clear_log(s, write_ok) ==
    IF write_ok
    THEN [s EXCEPT !.files = RemoveFile(WriteFile(s.files, _LOG_PATH, <<>>),
                                        _LOG_PREV_PATH),
                   !.initialized = FALSE]
    ELSE s

\* the messages the program logs
Messages == {"robot moving"}

(***************************************************************************)
(* aidriver.py: the L298N motor channels and the AIDriver methods that     *)
(* command them.  A motor is a record of the object's fields and of the    *)
(* levels last written to its three pins.                                  *)
(***************************************************************************)
FORWARD == 0
BACKWARD == 1
STOP == -1
PwmMax == 65535

\* L298N.stop(), lines 458-465
stop(m) ==
    [m EXCEPT !.pin_direction = 1, !.pin_brake = 1, !.duty = PwmMax,
              !._direction = STOP, !._is_moving = FALSE]

\* L298N.__init__, lines 394-414: the fields, then stop()
L298N_init ==
    stop([_pwm_val |-> PwmMax, _is_moving |-> FALSE, _direction |-> STOP,
          pin_direction |-> 0, pin_brake |-> 0, duty |-> 0])

\* L298N.set_speed(speed), lines 416-429
set_speed(m, speed) ==
    [m EXCEPT !._pwm_val = IF speed <= 255 THEN speed * 257 ELSE Min(speed, PwmMax)]

\* L298N.get_speed(), lines 431-438
get_speed(m) == IF m._is_moving THEN m._pwm_val ELSE 0

\* L298N.forward that leaves _is_moving alone
forward_keeps_moving_flag(m) ==
    [m EXCEPT !.pin_brake = 0, !.pin_direction = 1, !.duty = m._pwm_val,
              !._direction = FORWARD]

\* L298N.forward(), lines 440-447
forward(m) ==
    [m EXCEPT !.pin_brake = 0, !.pin_direction = 1, !.duty = m._pwm_val,
              !._direction = FORWARD, !._is_moving = TRUE]

\* L298N.backward that drives the pins and leaves _direction alone
backward_pins_only(m) ==
    [m EXCEPT !.pin_brake = 0, !.pin_direction = 0, !.duty = m._pwm_val,
              !._is_moving = TRUE]

\* L298N.backward(), lines 449-456
backward(m) ==
    [m EXCEPT !.pin_brake = 0, !.pin_direction = 0, !.duty = m._pwm_val,
              !._direction = BACKWARD, !._is_moving = TRUE]

\* L298N.is_moving() and L298N.get_direction(), lines 467-473
L298N_is_moving(m) == m._is_moving
get_direction(m) == m._direction

\* AIDriver.get_motor_speeds() and AIDriver.is_moving(), lines 726-746
get_motor_speeds == <<get_speed(motor_right), get_speed(motor_left)>>
is_moving == L298N_is_moving(motor_right) \/ L298N_is_moving(motor_left)

\* _speed_band(speed_value), lines 20-30
_speed_band(speed_value) ==
    IF speed_value <= 80 THEN "stopped"
    ELSE IF speed_value <= 120 THEN "very slow"
    ELSE IF speed_value <= 180 THEN "slow"
    ELSE IF speed_value <= 220 THEN "normal"
    ELSE "very fast"

\* _describe_drive(direction, right_speed, left_speed), lines 33-50; the dash of
\* the source text is written as a hyphen
_describe_drive(direction, right, left) ==
    LET speeds == "R=" \o ToString(right) \o ", L=" \o ToString(left)
        speed_diff == right - left
    IN  IF Max(right, left) <= 80
        THEN direction \o " requested with " \o speeds
                 \o " - speeds are in the stopped range so the robot may not move"
        ELSE direction \o " at " \o _speed_band(Max(right, left))
                 \o " speed (" \o speeds \o ")"
                 \o (IF Abs(speed_diff) > 20
                     THEN "; expect an arc toward the "
                              \o (IF speed_diff > 0 THEN "right" ELSE "left")
                     ELSE "")

\* _describe_rotation(direction, turn_speed), lines 53-62
_describe_rotation(direction, speed) ==
    IF speed <= 80
    THEN "Rotate " \o direction \o " requested with speed " \o ToString(speed)
             \o " - speed is in the stopped range so the robot may not turn"
    ELSE "Rotate " \o direction \o " on the spot at " \o _speed_band(speed)
             \o " speed (" \o ToString(speed) \o ")"

\* the speeds the program passes to the AIDriver methods
Speeds == {0, 200}
RawSpeeds == {0, 200, 1000}

(***************************************************************************)
(* Initial state: the objects as constructed.                              *)
(***************************************************************************)
Init ==
    /\ now = 0
    /\ _buffer = <<>>
    /\ _buffer_index = 0
    /\ flags = 0
    /\ left_speed = 0
    /\ right_speed = 0
    /\ counter = 0
    /\ last_command_ms = now
    /\ _last_telemetry_ms = 0
    /\ last_call = "none"
    /\ poll_ret = "none"
    /\ poll_decoded = <<>>
    /\ wire = <<>>
    /\ sent = 0
    /\ last_decode_ms = now
    /\ last_reset_ms = -1
    /\ uart_tx = <<>>
    /\ send_ret = "none"
    /\ send_arg = 0
    /\ send_times = <<>>
    /\ mode = 0
    /\ value0 = 0
    /\ value = 0
    /\ _frame = <<>>
    /\ _in_frame = FALSE
    /\ pad_wire = <<>>
    /\ pad_sent = 0
    /\ item = <<>>
    /\ prev_item = <<>>
    /\ snap = [mode |-> 0, value0 |-> 0, value |-> 0, frame |-> <<>>, in_frame |-> FALSE]
    /\ item_reads = 0
    /\ start_seen = FALSE
    /\ calls = <<>>
    /\ files = NoFiles
    /\ _initialized = FALSE
    /\ log_buffer = <<>>
    /\ run = 1
    /\ boot_files = NoFiles
    /\ cleared = FALSE
    /\ logged = FALSE
    /\ last_log = "none"
    /\ log_events = 0
    /\ log_separators = 0
    /\ log_clears = 0
    /\ last_write_ok = TRUE
    /\ call_order = <<>>
    /\ motor_right = L298N_init
    /\ motor_left = L298N_init
    /\ last_drive = "none"
    /\ driver_calls = 0

(***************************************************************************)
(* Actions                                                                 *)
(***************************************************************************)
\* one millisecond passes
TickTo(limit) ==
    /\ now < limit
    /\ now' = now + 1
    /\ UNCHANGED <<hmVars, telVars, padVars, logVars, drvVars>>

Tick == TickTo(MaxTime)

TickPoll == TickTo(MaxPollTime)

TickTelemetry == TickTo(MaxTelemetryTime)

\* HM10Controller.poll() with `data` returned by uart.read()
DoPoll(data) ==
    LET o == PollOutcome(_buffer, _buffer_index, Command, data, ticks_ms)
    IN  /\ _buffer' = o.buf
        /\ _buffer_index' = o.idx
        /\ flags' = o.cmd.flags
        /\ left_speed' = o.cmd.left_speed
        /\ right_speed' = o.cmd.right_speed
        /\ counter' = o.cmd.counter
        /\ last_command_ms' = o.cmd.last_command_ms
        /\ last_call' = "poll"
        /\ poll_ret' = Ret(o.updated)
        /\ poll_decoded' = o.log
        /\ last_decode_ms' = IF o.log # <<>> THEN ticks_ms ELSE last_decode_ms
        /\ last_reset_ms' = IF o.reset THEN ticks_ms ELSE last_reset_ms

\* the BLE controller transmits a packet or a burst
SendFrom(items) ==
    \E pkt \in items :
        /\ sent < MaxSent
        /\ Len(wire) < 4
        /\ wire' = wire \o pkt
        /\ sent' = sent + 1
        /\ UNCHANGED <<now, _buffer, _buffer_index, flags, left_speed, right_speed,
                       counter, last_command_ms, last_call, poll_ret,
                       poll_decoded, last_decode_ms, last_reset_ms, telVars, padVars, logVars, drvVars>>

\* uart.read() returns the first n bytes in flight: any prefix of a short wire,
\* the whole of a long one
ReadSizes == IF Len(wire) <= 8 THEN 0..Len(wire) ELSE {Len(wire)}

PollN(n) ==
    /\ DoPoll(SubSeq(wire, 1, n))
    /\ wire' = SubSeq(wire, n + 1, Len(wire))
    /\ UNCHANGED <<now, sent, telVars, padVars, logVars, drvVars>>

Poll == \E n \in ReadSizes : PollN(n)

\* reset() that forgets to restamp last_command_ms
Reset_keeps_stamp ==
    /\ _buffer' = <<>>
    /\ _buffer_index' = 0
    /\ flags' = 0
    /\ left_speed' = 0
    /\ right_speed' = 0
    /\ counter' = 0
    /\ last_command_ms' = last_command_ms
    /\ last_reset_ms' = ticks_ms
    /\ last_call' = "reset"
    /\ UNCHANGED <<now, poll_ret, poll_decoded, wire,
                   sent, last_decode_ms, telVars, padVars, logVars, drvVars>>

\* HM10Controller.reset()
Reset ==
    /\ _buffer' = <<>>
    /\ _buffer_index' = 0
    /\ flags' = 0
    /\ left_speed' = 0
    /\ right_speed' = 0
    /\ counter' = 0
    /\ last_command_ms' = ticks_ms
    /\ last_reset_ms' = ticks_ms
    /\ last_call' = "reset"
    /\ UNCHANGED <<now, poll_ret, poll_decoded, wire,
                   sent, last_decode_ms, telVars, padVars, logVars, drvVars>>

\* send_ultrasonic that restamps _last_telemetry_ms on a rejected call too
SendUltrasonic_stamps_rejected(distance_mm) ==
    /\ send_arg' = distance_mm
    /\ IF RateLimited(ticks_ms)
       THEN /\ send_ret' = Ret(FALSE)
            /\ _last_telemetry_ms' = ticks_ms
            /\ UNCHANGED <<uart_tx, send_times>>
       ELSE /\ _last_telemetry_ms' = ticks_ms
            /\ uart_tx' = Append(uart_tx, TelemetryPayload(distance_mm))
            /\ send_times' = Append(send_times, ticks_ms)
            /\ send_ret' = Ret(TRUE)
    /\ UNCHANGED <<now, hmVars, padVars, logVars, drvVars>>

\* HM10Controller.send_ultrasonic(distance_mm)
SendUltrasonic(distance_mm) ==
    /\ send_arg' = distance_mm
    /\ IF RateLimited(ticks_ms)
       THEN /\ send_ret' = Ret(FALSE)
            /\ UNCHANGED <<_last_telemetry_ms, uart_tx, send_times>>
       ELSE /\ _last_telemetry_ms' = ticks_ms
            /\ uart_tx' = Append(uart_tx, TelemetryPayload(distance_mm))
            /\ send_times' = Append(send_times, ticks_ms)
            /\ send_ret' = Ret(TRUE)
    /\ UNCHANGED <<now, hmVars, padVars, logVars, drvVars>>

Telemetry == \E d \in Distances : SendUltrasonic(d)

\* the gamepad app transmits a byte string once the previous one is read
PadSendFrom(items) ==
    \E it \in items :
        /\ pad_sent < MaxPadSent
        /\ pad_wire = <<>>
        /\ pad_wire' = it
        /\ pad_sent' = pad_sent + 1
        /\ item' = it
        /\ prev_item' = item
        /\ snap' = Pad
        /\ item_reads' = 0
        /\ UNCHANGED <<now, hmVars, telVars, logVars, drvVars, mode, value0, value, _frame, _in_frame,
                       start_seen, calls>>

PadSend == PadSendFrom(PadItems)

\* the app sends several frames at once, or a start marker followed by data
\* bytes and no end marker
PadStream == PadSendFrom(FloodItems \cup BatchItems)

\* GamepadAIDriverController.update() when the first n bytes in flight have
\* reached the UART
UpdateN(n) ==
    LET data == SubSeq(pad_wire, 1, n)
        p == GamePad_poll(Pad, data)
    IN  /\ mode' = p.mode
        /\ value0' = p.value0
        /\ value' = p.value
        /\ _frame' = p.frame
        /\ _in_frame' = p.in_frame
        /\ calls' = update_calls(p)
        /\ pad_wire' = SubSeq(pad_wire, n + 1, Len(pad_wire))
        /\ item_reads' = IF n > 0 THEN item_reads + 1 ELSE item_reads
        /\ start_seen' = (start_seen \/ \E i \in 1..n : data[i] = START_OF_FRAME)
        /\ UNCHANGED <<now, hmVars, telVars, logVars, drvVars, pad_sent, item, prev_item, snap>>

Update == \E n \in 0..Len(pad_wire) : UpdateN(n)

Send == SendFrom(Sendable)

SendCommand == SendFrom({FullSpeedPacket, BrakePacket})

\* the module's globals and the flash after an eventlog function returned s
LogReturns(s) ==
    /\ files' = s.files
    /\ _initialized' = s.initialized
    /\ log_buffer' = s.buffer
    /\ UNCHANGED <<now, hmVars, telVars, padVars, run, boot_files>>

\* eventlog.log_event(message)
LogEventOf(message, rename_ok, write_ok) ==
    /\ log_events < MaxLogEvents
    /\ LogReturns(log_event(LogState, message, rename_ok, write_ok))
    /\ log_events' = log_events + 1
    /\ logged' = TRUE
    /\ last_log' = message
    /\ last_write_ok' = write_ok
    /\ call_order' = Append(call_order, message)
    /\ UNCHANGED <<cleared, log_separators, log_clears>>

LogEvent == \E message \in Messages, rename_ok \in BOOLEAN :
                LogEventOf(message, rename_ok, TRUE) /\ UNCHANGED drvVars

LogEventFaulty == \E message \in Messages, rename_ok \in BOOLEAN, write_ok \in BOOLEAN :
                      LogEventOf(message, rename_ok, write_ok) /\ UNCHANGED drvVars

\* eventlog.flush()
FlushOf(rename_ok, write_ok) ==
    /\ LogReturns(flush(LogState, rename_ok, write_ok))
    /\ last_log' = "flush"
    /\ last_write_ok' = write_ok
    /\ UNCHANGED <<cleared, logged, log_events, log_separators, log_clears, call_order,
                   drvVars>>

Flush == \E rename_ok \in BOOLEAN : FlushOf(rename_ok, TRUE)

FlushFaulty == \E rename_ok \in BOOLEAN, write_ok \in BOOLEAN : FlushOf(rename_ok, write_ok)

\* eventlog.log_separator()
LogSeparatorOf(rename_ok, write_ok) ==
    /\ log_separators < MaxLogSeparators
    /\ LogReturns(log_separator(LogState, rename_ok, write_ok))
    /\ log_separators' = log_separators + 1
    /\ logged' = TRUE
    /\ last_log' = "log_separator"
    /\ last_write_ok' = write_ok
    /\ call_order' = Append(call_order, SeparatorText)
    /\ UNCHANGED <<cleared, log_events, log_clears, drvVars>>

LogSeparator == \E rename_ok \in BOOLEAN : LogSeparatorOf(rename_ok, TRUE)

LogSeparatorFaulty == \E rename_ok \in BOOLEAN, write_ok \in BOOLEAN :
                          LogSeparatorOf(rename_ok, write_ok)

\* eventlog.clear_log()
ClearLogOf(write_ok) ==
    /\ log_clears < MaxLogClears
    /\ LogReturns(clear_log(LogState, write_ok))
    /\ log_clears' = log_clears + 1
    /\ cleared' = TRUE
    /\ last_log' = "clear_log"
    /\ last_write_ok' = write_ok
    /\ UNCHANGED <<logged, log_events, log_separators, call_order, drvVars>>

ClearLog == ClearLogOf(TRUE)

ClearLogFaulty == \E write_ok \in BOOLEAN : ClearLogOf(write_ok)

\* the board restarts and eventlog is imported again (lines 24-33): the module
\* globals are fresh, the files on flash stay
Restart ==
    /\ run < MaxRuns
    /\ run' = run + 1
    /\ boot_files' = files
    /\ _initialized' = FALSE
    /\ log_buffer' = <<>>
    /\ cleared' = FALSE
    /\ logged' = FALSE
    /\ last_log' = "none"
    /\ last_write_ok' = TRUE
    /\ call_order' = <<>>
    /\ UNCHANGED <<now, hmVars, telVars, padVars, files, log_events, log_separators,
                   log_clears, drvVars>>

\* an AIDriver method that logs `message` and leaves the motors as right, left
DriverCall(name, message, right, left) ==
    /\ driver_calls < MaxDriverCalls
    /\ \E rename_ok \in BOOLEAN : LogEventOf(message, rename_ok, TRUE)
    /\ motor_right' = right
    /\ motor_left' = left
    /\ last_drive' = name
    /\ driver_calls' = driver_calls + 1

\* AIDriver.brake(), lines 580-593
Brake ==
    DriverCall("brake", "Brake applied; motors stopping",
               stop(motor_right), stop(motor_left))

\* AIDriver.drive_forward(right_wheel_speed, left_wheel_speed), lines 612-637
DriveForward ==
    \E right_wheel_speed \in Speeds, left_wheel_speed \in Speeds :
        DriverCall("drive_forward",
                   _describe_drive("Drive forward", right_wheel_speed, left_wheel_speed),
                   backward(set_speed(motor_right, right_wheel_speed)),
                   forward(set_speed(motor_left, left_wheel_speed)))

\* AIDriver.drive_backward(right_wheel_speed, left_wheel_speed), lines 639-664
DriveBackward ==
    \E right_wheel_speed \in Speeds, left_wheel_speed \in Speeds :
        DriverCall("drive_backward",
                   _describe_drive("Drive backward", right_wheel_speed, left_wheel_speed),
                   forward(set_speed(motor_right, right_wheel_speed)),
                   backward(set_speed(motor_left, left_wheel_speed)))

\* AIDriver.rotate_right(turn_speed), lines 666-686
RotateRight ==
    \E speed \in Speeds :
        DriverCall("rotate_right", _describe_rotation("right", speed),
                   forward(set_speed(motor_right, speed)),
                   forward(set_speed(motor_left, speed)))

\* AIDriver.rotate_left(turn_speed), lines 688-708
RotateLeft ==
    \E speed \in Speeds :
        DriverCall("rotate_left", _describe_rotation("left", speed),
                   backward(set_speed(motor_right, speed)),
                   backward(set_speed(motor_left, speed)))

\* AIDriver.set_motor_speeds(right_speed, left_speed), lines 710-724
SetMotorSpeeds ==
    \E right \in RawSpeeds, left \in RawSpeeds :
        /\ driver_calls < MaxDriverCalls
        /\ motor_right' = set_speed(motor_right, right)
        /\ motor_left' = set_speed(motor_left, left)
        /\ last_drive' = "set_motor_speeds"
        /\ driver_calls' = driver_calls + 1
        /\ UNCHANGED <<now, hmVars, telVars, padVars, logVars>>

\* the packet decoder under every kind of traffic
NextHM10 ==
 TickPoll \/ Send \/ Poll \/ Reset

SpecHM10 == Init /\ [][NextHM10]_vars

\* the staleness watchdog under well-formed command traffic
NextWatchdog == Tick \/ SendCommand \/ Poll \/ Reset

SpecWatchdog == Init /\ [][NextWatchdog]_vars

\* the gamepad decoder and the controller on top of it
NextPad == PadSend \/ Update

SpecPad == Init /\ [][NextPad]_vars

\* the telemetry rate limiter
NextTelemetry == TickTelemetry \/ Telemetry

SpecTelemetry == Init /\ [][NextTelemetry]_vars

\* the gamepad decoder fed several frames at once and frames that are never closed
NextPadStream == PadStream \/ Update

SpecPadStream == Init /\ [][NextPadStream]_vars

\* the motor driver under every sequence of commands
NextDriver == Brake \/ DriveForward \/ DriveBackward \/ RotateRight \/ RotateLeft
                  \/ SetMotorSpeeds

SpecDriver == Init /\ [][NextDriver]_vars

\* the event logger over several runs of the board
NextLog == LogEvent \/ Flush \/ LogSeparator \/ ClearLog \/ Restart

SpecLog == Init /\ [][NextLog]_vars

\* the event logger during one run when the flash may refuse a write
NextLogFaulty == LogEventFaulty \/ FlushFaulty \/ LogSeparatorFaulty \/ ClearLogFaulty

SpecLogFaulty == Init /\ [][NextLogFaulty]_vars

(***************************************************************************)
(* Properties                                                              *)
(***************************************************************************)
\* what poll() sees at line 104 when uart.read() returns n bytes
Unconsumed == SubSeq(_buffer, _buffer_index + 1, Len(_buffer))
PollStream(n) == Unconsumed \o SubSeq(wire, 1, n)
PacketAt(stream, i) == SubSeq(stream, 4 * i - 3, 4 * i)
AllStop == [left |-> StopWheel, right |-> StopWheel]

\* C1 (as stated): whenever more than command_timeout_ms ticks have passed since
\* the last packet was decoded, is_stale() is true and both wheels are stopped.
C1_StaleAfterSilence ==
    (now - last_decode_ms > CommandTimeoutMs) => (is_stale /\ MotionOutput = AllStop)

\* C1 (amended): whenever more than command_timeout_ms ticks have passed since
\* the last packet was decoded and since the last reset(), is_stale() is true
\* and both wheels are stopped, whatever speeds are cached.
C1_StaleAfterSilenceAndNoReset ==
    (now - Max(last_decode_ms, last_reset_ms) > CommandTimeoutMs)
        => (is_stale /\ MotionOutput = AllStop)

C1_Witness ==
    /\ last_call = "poll"
    /\ poll_decoded # <<>>
    /\ now - last_decode_ms > CommandTimeoutMs
    /\ left_speed = 255
    /\ right_speed = -255
    /\ ~is_brake_requested

\* C2: a poll() whose uart.read() returns more than the 64-byte cap resets the
\* controller: buffer empty, index 0, flags, speeds and counter 0 (the first half
\* of the claim; the decoding of the next packet rests on it).
C2_OverflowResets ==
    [][\A n \in ReadSizes :
          (PollN(n) /\ n > MaxBufferBytes)
              => /\ _buffer' = <<>>
                 /\ _buffer_index' = 0
                 /\ flags' = 0
                 /\ left_speed' = 0
                 /\ right_speed' = 0
                 /\ counter' = 0]_vars

\* C3: every speed byte 0..255 expands into -255..255, 0x7F to 255 and 0x80 to
\* -255, and the cached speeds are in -255..255 in every reachable state.
C3_SpeedsClamped ==
    /\ \A b \in Byte : _expand_speed(b) \in -255..255
    /\ _expand_speed(127) = 255
    /\ _expand_speed(128) = -255
    /\ left_speed \in -255..255
    /\ right_speed \in -255..255

C3_Witness ==
    /\ last_call = "poll"
    /\ poll_decoded # <<>>
    /\ left_speed = 255
    /\ right_speed = -255

\* C4: once a byte string is fully read, however many poll() calls it took, the
\* decoded state (mode, value0, value, in-frame flag) is the one a single poll()
\* of the whole string leaves.
C4_SplitIndependent ==
    (item # <<>> /\ pad_wire = <<>>)
        => LET whole == GamePad_poll(snap, item)
           IN  /\ mode = whole.mode
               /\ value0 = whole.value0
               /\ value = whole.value
               /\ _in_frame = whole.in_frame

C4_Witness ==
    /\ item = Frame(GAMEPAD_ANALOG, 1, 55)
    /\ pad_wire = <<>>
    /\ item_reads = 2
    /\ mode = 1
    /\ value0 = 1
    /\ value = 55
    /\ ~_in_frame

\* C5: as long as no start marker has been read, nothing is decoded: mode, value0
\* and value keep their initial values and the decoder is not in a frame.
C5_NoStartNoEvent ==
    ~start_seen => (mode = 0 /\ value0 = 0 /\ value = 0 /\ ~_in_frame)

C5_Witness ==
    /\ ~start_seen
    /\ item = NoStartMarker
    /\ pad_wire = <<>>
    /\ item_reads >= 2
    /\ pad_sent = 2

\* C7: when the START bit is set in the decoded state, update() calls brake and
\* nothing else, whatever the mode and the d-pad / analog byte are.
C7_StartBrakes ==
    (calls # <<>> /\ is_start_pressed(Pad)) => calls = <<Call("brake", <<>>)>>

C7_Witness ==
    /\ is_start_pressed(Pad)
    /\ is_up_pressed(Pad)
    /\ calls = <<Call("brake", <<>>)>>

\* C6: a send_ultrasonic call less than telemetry_interval_ms after the last
\* successful send returns False and writes nothing; one at least that long after
\* it returns True and writes one packet; successful sends are at least
\* telemetry_interval_ms apart.
C6_RateLimit ==
    /\ [](\A i \in 1..Len(send_times) - 1 :
              send_times[i + 1] - send_times[i] >= TelemetryIntervalMs)
    /\ [][\A d \in Distances :
            (SendUltrasonic(d) /\ send_times # <<>>)
                => LET since == now - send_times[Len(send_times)]
                   IN  /\ since < TelemetryIntervalMs
                           => (send_ret' = "False" /\ uart_tx' = uart_tx)
                       /\ since >= TelemetryIntervalMs
                           => /\ send_ret' = "True"
                              /\ Len(uart_tx') = Len(uart_tx) + 1
                              /\ SubSeq(uart_tx', 1, Len(uart_tx)) = uart_tx]_vars

C6_Witness ==
    /\ Len(send_times) >= 2
    /\ send_ret = "False"
    /\ Len(uart_tx) = Len(send_times)

\* C8: when poll() returns, fewer than 4 unconsumed bytes remain, the packets
\* decoded are the complete 4-byte packets of the unconsumed stream in arrival
\* order, and the cached command is the last of them.
C8_AllPacketsConsumedInOrder ==
    [][\A n \in ReadSizes :
          PollN(n)
              => LET stream == PollStream(n)
                     k == Len(stream) \div 4
                 IN  /\ Len(_buffer') - _buffer_index' < 4
                     /\ k >= 1
                         => /\ poll_decoded' = [i \in 1..k |-> PacketAt(stream, i)]
                            /\ Len(_buffer') - _buffer_index' = Len(stream) - 4 * k
                            /\ flags' = stream[4 * k - 3]
                            /\ left_speed' = _expand_speed(stream[4 * k - 2])
                            /\ right_speed' = _expand_speed(stream[4 * k - 1])
                            /\ counter' = stream[4 * k]]_vars

C8_Witness ==
    /\ last_call = "poll"
    /\ poll_decoded = <<FullSpeedPacket, BrakePacket>>
    /\ flags = 1
    /\ counter = 6

\* C9: poll() returns True exactly when it consumed a complete packet (3 or 4
\* bytes), and then the cached command is the last packet decoded and
\* last_command_ms is the current tick.
C9_ReturnsTrueIffConsumed ==
    [][\A n \in ReadSizes :
          PollN(n)
              => LET before == Len(PollStream(n))
                     after == Len(_buffer') - _buffer_index'
                 IN  /\ poll_ret' = Ret(before - after >= 3)
                     /\ poll_ret' = Ret(before >= 3)
                     /\ poll_ret' = "True"
                         => LET last == poll_decoded'[Len(poll_decoded')]
                            IN  /\ flags' = last[1]
                                /\ left_speed' = _expand_speed(last[2])
                                /\ right_speed' = _expand_speed(last[3])
                                /\ Len(last) = 4 => counter' = last[4]
                                /\ last_command_ms' = now]_vars

C9_Witness ==
    /\ last_call = "poll"
    /\ poll_ret = "True"
    /\ now > 0
    /\ last_command_ms = now
    /\ flags = 1

\* C10: a 3-byte packet is decoded only by a poll() that decoded no 4-byte packet
\* and had at least 3 unconsumed bytes; it consumes exactly 3 bytes, sets flags
\* and both speeds from them and keeps the counter.
C10_LegacyDecode ==
    [][\A n \in ReadSizes :
          (PollN(n) /\ \E i \in 1..Len(poll_decoded') : Len(poll_decoded'[i]) = 3)
              => LET stream == PollStream(n)
                 IN  /\ Len(poll_decoded') = 1
                     /\ Len(stream) >= 3
                     /\ Len(stream) - (Len(_buffer') - _buffer_index') = 3
                     /\ poll_decoded'[1] = SubSeq(stream, 1, 3)
                     /\ flags' = stream[1]
                     /\ left_speed' = _expand_speed(stream[2])
                     /\ right_speed' = _expand_speed(stream[3])
                     /\ counter' = counter]_vars

C10_Witness ==
    /\ last_call = "poll"
    /\ poll_decoded = <<LegacyPacket>>
    /\ left_speed = -255
    /\ right_speed = 255
    /\ counter = 5

\* C11: in every state, so after every poll() whatever the read sizes were, the
\* receive buffer holds at most 64 bytes and 0 <= _buffer_index <= len(_buffer).
C11_BufferBounded ==
    /\ Len(_buffer) <= MaxBufferBytes
    /\ _buffer_index >= 0
    /\ _buffer_index <= Len(_buffer)

C11_Witness ==
    /\ last_call = "poll"
    /\ Len(poll_decoded) >= MaxBufferBytes \div 4
    /\ Len(_buffer) > 0
    /\ sent = MaxSent

\* C12: last_command_ms is the tick of the last decoded packet, reset() or
\* construction, whichever came last, and is_stale() is true exactly when more
\* than command_timeout_ms ticks have passed since then (not when exactly
\* command_timeout_ms have).
C12_StaleIffElapsedExceeds ==
    LET stamped == Max(last_decode_ms, last_reset_ms)
    IN  /\ last_command_ms = stamped
        /\ is_stale <=> (now - stamped > CommandTimeoutMs)
        /\ (now - stamped = CommandTimeoutMs) => ~is_stale

C12_Witness ==
    /\ last_call = "poll"
    /\ poll_decoded # <<>>
    /\ last_decode_ms > 0
    /\ now - last_decode_ms = CommandTimeoutMs
    /\ ~is_stale

C14_ResetClears ==
    [][Reset
          => /\ flags' = 0
             /\ left_speed' = 0
             /\ right_speed' = 0
             /\ counter' = 0
             /\ _buffer' = <<>>
             /\ _buffer_index' = 0
             /\ last_command_ms' = now'
             /\ ~is_stale'
             /\ \A timeout \in 0..MaxTime :
                    ~(ticks_diff(now', last_command_ms') > timeout)]_vars

C14_Witness ==
    /\ last_call = "reset"
    /\ poll_decoded = <<BrakePacket>>
    /\ wire = <<>>
    /\ now - last_decode_ms > CommandTimeoutMs
    /\ flags = 0
    /\ left_speed = 0
    /\ _buffer = <<>>
    /\ last_command_ms = now

\* C15: a send_ultrasonic call that returns False writes nothing to the UART and
\* leaves _last_telemetry_ms as it was; what the UART carries are only the
\* readings of accepted calls, one payload per accepted call, and
\* _last_telemetry_ms stays the tick of the last accepted call however many
\* calls were rejected since, so the first call telemetry_interval_ms after it is
\* accepted.
C15_RejectedSendHasNoEffect ==
    /\ [](Len(uart_tx) = Len(send_times))
    /\ [](send_times # <<>> => _last_telemetry_ms = send_times[Len(send_times)])
    /\ [][\A d \in Distances :
            SendUltrasonic(d)
                => IF send_ret' = "False"
                   THEN /\ uart_tx' = uart_tx
                        /\ _last_telemetry_ms' = _last_telemetry_ms
                        /\ send_times' = send_times
                   ELSE uart_tx' = Append(uart_tx, TelemetryPayload(d))]_vars
    /\ [][\A d \in Distances :
            (/\ SendUltrasonic(d)
             /\ send_times # <<>>
             /\ now - send_times[Len(send_times)] >= TelemetryIntervalMs)
                => send_ret' = "True"]_vars

C15_Witness ==
    /\ send_ret = "False"
    /\ uart_tx # <<>>
    /\ TelemetryPayload(send_arg) # uart_tx[Len(uart_tx)]
    /\ now = _last_telemetry_ms + TelemetryIntervalMs - 1
    /\ _last_telemetry_ms > 0

\* C16: the payload of a successful send_ultrasonic is 3 bytes, the first 0x01,
\* the other two the big-endian 16-bit value of the distance clamped to
\* 0..65535, for negative and too large distances as well.
C16_PayloadEncoding ==
    /\ \A d \in (-300..300) \cup (65200..65800) :
           LET p == TelemetryPayload(d)
           IN  /\ Len(p) = 3
               /\ p[1] = 1
               /\ p[2] \in Byte
               /\ p[3] \in Byte
               /\ p[2] * 256 + p[3] = Min(Max(d, 0), 65535)
    /\ [][\A d \in Distances :
            (SendUltrasonic(d) /\ send_ret' = "True")
                => LET p == uart_tx'[Len(uart_tx')]
                   IN  /\ Len(uart_tx') = Len(uart_tx) + 1
                       /\ Len(p) = 3
                       /\ p[1] = 1
                       /\ p[2] \in Byte
                       /\ p[3] \in Byte
                       /\ p[2] * 256 + p[3] = Min(Max(d, 0), 65535)]_vars

C16_Witness ==
    /\ send_ret = "True"
    /\ send_arg = 70000
    /\ Len(uart_tx) = 2
    /\ uart_tx[1] = <<1, 0, 0>>
    /\ uart_tx[2] = <<1, 255, 255>>

\* frame bodies (the bytes between the markers) that are too short, or long
\* enough but of another module
Body(it) == SubSeq(it, 2, Len(it) - 1)
ShortBodies == {SubSeq(Body(it), 1, k) : it \in WellFormed, k \in 0..(MinFrameLen - 1)}
WrongModuleBodies == {[Body(it) EXCEPT ![1] = m] : it \in WellFormed, m \in {0, 2, 255}}
\* mode, value0 and value are those of p
SameEvent(p) == mode = p.mode /\ value0 = p.value0 /\ value = p.value

Decoded(it) == [mode |-> IF it[3] = GAMEPAD_DIGITAL THEN 0 ELSE 1,
                value0 |-> it[6], value |-> it[7]]

\* C18: a poll() whose last byte is the end marker leaves the decoder outside a
\* frame, whether the frame parsed or not; a well-formed frame sent after a whole
\* start..end frame that is too short or of another module is decoded.
C18_EndMarkerLeavesFrame ==
    /\ []((/\ prev_item \in Malformed
            /\ item \in WellFormed
            /\ pad_wire = <<>>)
              => (SameEvent(Decoded(item)) /\ ~_in_frame))
    /\ [][\A n \in 1..Len(pad_wire) :
            (UpdateN(n) /\ pad_wire[n] = END_OF_FRAME) => ~_in_frame']_vars

C18_Witness ==
    /\ prev_item = ShortFrame
    /\ item = Frame(GAMEPAD_ANALOG, 0, 55)
    /\ pad_wire = <<>>
    /\ item_reads = 2
    /\ mode = 1
    /\ value0 = 0
    /\ value = 55
    /\ ~_in_frame

\* C19: when a frame without its end marker is followed by a well-formed frame,
\* the bytes of the first produce no event and the second is decoded.
C19_UnterminatedFrameDiscarded ==
    (prev_item = NoEndMarker /\ item \in WellFormed /\ pad_wire = <<>>)
        => (SameEvent(Decoded(item)) /\ ~_in_frame)

\* C20: a whole frame whose arg count and arg length bytes do not match the two
\* payload bytes present, received by an idle decoder, leaves mode, value0 and
\* value as they were and the decoder idle.
C20_LengthMismatchDropped ==
    (item = LengthMismatch /\ pad_wire = <<>> /\ ~snap.in_frame)
        => (SameEvent(snap) /\ ~_in_frame)

\* C21: a frame with two length-prefixed one-byte arguments A and B, received by
\* an idle decoder, leaves value0 = A and value = B: for the digital id START is
\* bit 0 of A and RIGHT is bit 3 of B, for the analog id mode is 1, the angle
\* (B >> 3) * 15 and the radius B & 7.
C21_TwoArgFrameDecoded ==
    (item \in TwoArgFrames /\ pad_wire = <<>> /\ ~snap.in_frame)
        => LET a == item[6]
               b == item[8]
           IN  /\ value0 = a
               /\ value = b
               /\ is_start_pressed(Pad) = BitSet(a, START_BIT)
               /\ item[3] = GAMEPAD_DIGITAL
                      => (mode = 0 /\ is_right_pressed(Pad) = BitSet(b, RIGHT_BIT))
               /\ item[3] = GAMEPAD_ANALOG
                      => /\ mode = 1
                         /\ get_angle(Pad) = (b \div 8) * 15
                         /\ get_radius(Pad) = b % 8

\* C22: whenever the decoded state is analog (mode 1), get_angle() is a multiple
\* of 15 within 0..359 and get_radius() is within 0..7.
C22_AngleRadiusRange ==
    mode = 1 => /\ get_angle(Pad) % 15 = 0
                /\ get_angle(Pad) \in 0..359
                /\ get_radius(Pad) \in 0..7

\* C23: an update() during which no frame is completed (no end marker is among
\* the bytes it reads) issues no motion command derived from an earlier frame:
\* its one command is brake.
C23_EventIsEphemeral ==
    [][\A n \in 0..Len(pad_wire) :
          (UpdateN(n) /\ \A i \in 1..n : pad_wire[i] # END_OF_FRAME)
              => calls' = <<Call("brake", <<>>)>>]_vars

\* the command the d-pad byte v asks for by the priority up > down > left > right
DpadCommand(v) ==
    IF BitSet(v, UP_BIT) THEN <<Call("drive_forward", <<max_speed, max_speed>>)>>
    ELSE IF BitSet(v, DOWN_BIT) THEN <<Call("drive_backward", <<max_speed, max_speed>>)>>
    ELSE IF BitSet(v, LEFT_BIT) THEN <<Call("rotate_left", <<turn_speed>>)>>
    ELSE <<Call("rotate_right", <<turn_speed>>)>>
DpadPressed(v) == v % 16 # 0

\* C24: with START not pressed, update() on a digital state with a d-pad
\* direction pressed issues the one command of the highest-priority direction
\* (up > down > left > right); a command of the analog stick is issued only when
\* no d-pad direction is pressed.
C24_DpadPriority ==
    /\ \A v \in 1..31 : \A b \in {0, 2} :
           DpadPressed(v)
               => update_calls([Pad EXCEPT !.mode = 0, !.value0 = b, !.value = v])
                      = DpadCommand(v)
    /\ (calls # <<>> /\ ~is_start_pressed(Pad))
           => /\ (mode = 0 /\ DpadPressed(value)) => calls = DpadCommand(value)
              /\ (is_up_pressed(Pad) \/ is_down_pressed(Pad)
                      \/ is_left_pressed(Pad) \/ is_right_pressed(Pad))
                     => calls = DpadCommand(value)
              /\ ~(is_up_pressed(Pad) \/ is_down_pressed(Pad)
                       \/ is_left_pressed(Pad) \/ is_right_pressed(Pad))
                     => calls = IF mode # 0 THEN analog_calls(Pad)
                                ELSE <<Call("brake", <<>>)>>

C24_Witness ==
    /\ mode = 0
    /\ value0 = 0
    /\ value = 55
    /\ pad_wire = <<>>
    /\ calls = <<Call("drive_forward", <<max_speed, max_speed>>)>>

\* C25: radius 0 maps to a speed below min_speed and radius 1..7 to a speed
\* within min_speed..max_speed; in analog mode with START not pressed update()
\* brakes at radius 0 and issues a drive or rotate command at radius 1..7.
C25_Deadzone ==
    /\ _analog_to_speed(0) < min_speed
    /\ \A r \in 1..7 : _analog_to_speed(r) \in min_speed..max_speed
    /\ (calls # <<>> /\ mode = 1 /\ ~is_start_pressed(Pad))
           => IF get_radius(Pad) = 0
              THEN calls = <<Call("brake", <<>>)>>
              ELSE calls # <<Call("brake", <<>>)>>

C25_Witness ==
    /\ mode = 1
    /\ value0 = 0
    /\ value = 8
    /\ pad_wire = <<>>
    /\ calls = <<Call("brake", <<>>)>>

\* sin and cos of a whole number of degrees against the thresholds +-0.5, in
\* exact arithmetic: sin(a) > 0.5 exactly when 30 < a < 150, and so on
SinAbove(a) == a % 360 > 30 /\ a % 360 < 150
SinBelow(a) == a % 360 > 210 /\ a % 360 < 330
CosAbove(a) == a % 360 < 60 \/ a % 360 > 300
CosBelow(a) == a % 360 > 120 /\ a % 360 < 240
ClaimedOp(a) ==
    IF SinAbove(a) THEN "drive_forward"
    ELSE IF SinBelow(a) THEN "drive_backward"
    ELSE IF CosAbove(a) THEN "rotate_right"
    ELSE IF CosBelow(a) THEN "rotate_left"
    ELSE "brake"

\* C26: in analog mode with START not pressed and radius 1..7, update() issues
\* drive_forward when sin(angle) > 0.5, drive_backward when sin(angle) < -0.5,
\* and otherwise rotate_right(turn_speed) when cos(angle) > 0.5 and
\* rotate_left(turn_speed) when cos(angle) < -0.5.
C26_AngleToCommand ==
    (calls # <<>> /\ mode = 1 /\ ~is_start_pressed(Pad) /\ get_radius(Pad) >= 1)
        => /\ Len(calls) = 1
           /\ calls[1].op = ClaimedOp(get_angle(Pad))
           /\ calls[1].op \in {"rotate_left", "rotate_right"}
                  => calls[1].args = <<turn_speed>>

\* a drive command whose two wheel arguments are within 0..speed, the larger
\* one being speed or, by truncation, speed - 1
WheelsWithin(c, speed) ==
    c[1].op \in {"drive_forward", "drive_backward"}
        => /\ Len(c[1].args) = 2
           /\ \A i \in 1..2 : c[1].args[i] \in 0..speed
           /\ Max(c[1].args[1], c[1].args[2]) \in {speed - 1, speed}

\* C27: payload byte 0x37 decodes to angle 90 and radius 7 and update() issues
\* drive_forward with wheel speeds that differ by at most 1 and are within 1 of
\* max_speed; every drive command of the analog stick has both wheel arguments
\* within 0..requested speed, the larger one equal to it up to truncation.
C27_ForwardAtFullSpeed ==
    /\ \A v \in Byte :
           v % 8 >= 1
               => WheelsWithin(analog_calls([Pad EXCEPT !.mode = 1, !.value = v]),
                               _analog_to_speed(v % 8))
    /\ []((calls # <<>> /\ mode = 1 /\ ~is_start_pressed(Pad) /\ get_radius(Pad) >= 1)
             => WheelsWithin(calls, _analog_to_speed(get_radius(Pad))))
    /\ []((calls # <<>> /\ mode = 1 /\ ~is_start_pressed(Pad) /\ value = 55)
             => /\ get_angle(Pad) = 90
                /\ get_radius(Pad) = 7
                /\ calls[1].op = "drive_forward"
                /\ Abs(calls[1].args[1] - calls[1].args[2]) <= 1
                /\ \A i \in 1..2 : calls[1].args[i] \in (max_speed - 1)..max_speed)

C27_Witness ==
    /\ mode = 1
    /\ value0 = 0
    /\ value = 55
    /\ pad_wire = <<>>
    /\ calls = <<Call("drive_forward", <<254, 255>>)>>

\* the driver commands update() can issue, with the number of arguments each takes
DriverCommand(c) ==
    \/ c.op = "brake" /\ c.args = <<>>
    \/ c.op \in {"drive_forward", "drive_backward"} /\ Len(c.args) = 2
    \/ c.op \in {"rotate_left", "rotate_right"} /\ Len(c.args) = 1

\* C28: every update() issues exactly one driver command, one of brake,
\* drive_forward, drive_backward, rotate_left and rotate_right; in digital mode
\* with no button pressed the command is brake.
C28_OneCommandPerUpdate ==
    /\ \A m \in 0..1, v0 \in Byte, v \in Byte :
           LET c == update_calls([Pad EXCEPT !.mode = m, !.value0 = v0, !.value = v])
           IN  /\ Len(c) = 1
               /\ DriverCommand(c[1])
               /\ (m = 0 /\ v0 = 0 /\ v = 0) => c[1].op = "brake"
    /\ [][\A n \in 0..Len(pad_wire) :
             UpdateN(n) => /\ Len(calls') = 1
                           /\ DriverCommand(calls'[1])
                           /\ (mode' = 0 /\ value0' = 0 /\ value' = 0)
                                  => calls'[1].op = "brake"]_vars

C28_Witness ==
    /\ item = Released
    /\ prev_item \in WellFormed
    /\ pad_wire = <<>>
    /\ mode = 0
    /\ value0 = 0
    /\ value = 0
    /\ calls = <<Call("brake", <<>>)>>

\* the lines of a file, none for a missing file
Lines(fs, path) == IF path \in DOMAIN fs THEN fs[path] ELSE <<>>

\* the lines of a file that the current run wrote
OwnLines(fs, path) == SelectSeq(Lines(fs, path), LAMBDA l : l.run = run)

IsPrefix(a, b) == Len(a) <= Len(b) /\ SubSeq(b, 1, Len(a)) = a

\* C29: if event_log.txt has content when a run starts, log_event() leaves the
\* file exactly as it was; after clear_log() a log_event() message appears in
\* the file.
C29_ExistingContentDisablesLogging ==
    /\ (HasContent(boot_files, _LOG_PATH) /\ ~cleared)
           => Lines(files, _LOG_PATH) = Lines(boot_files, _LOG_PATH)
    /\ (cleared /\ last_log \in Messages)
           => \E i \in 1..Len(Lines(files, _LOG_PATH)) :
                  files[_LOG_PATH][i] = Line(run, last_log)

\* a step of log_event(), log_separator() or flush()
LogCall == LogEvent \/ LogSeparator \/ Flush

ByteOf(s) == IF s < 0 THEN s + 256 ELSE s

\* the integer nearest to s * 255 / 127 (no tie exists: 127 is odd), clamped to
\* -255..255
NearestScaled(s) ==
    LET r == CHOOSE k \in -258..258 : 2 * Abs(127 * k - 255 * s) <= 127
    IN  Max(-255, Min(255, r))

\* C32: _expand_speed maps the signed byte s to the integer nearest to
\* s * 255 / 127 clamped to -255..255; 0 goes to 0, 127 to 255, -127 and -128 to
\* -255; it is odd-symmetric on 1..127 and non-decreasing in s; the cached
\* speeds after a decoded packet are these values of its speed bytes.
C32_ExpandSpeedRounds ==
    /\ \A s \in -128..127 : _expand_speed(ByteOf(s)) = NearestScaled(s)
    /\ _expand_speed(ByteOf(0)) = 0
    /\ _expand_speed(ByteOf(127)) = 255
    /\ _expand_speed(ByteOf(-127)) = -255
    /\ _expand_speed(ByteOf(-128)) = -255
    /\ \A s \in 1..127 : _expand_speed(ByteOf(-s)) = -_expand_speed(ByteOf(s))
    /\ \A s \in -128..126 : _expand_speed(ByteOf(s)) <= _expand_speed(ByteOf(s + 1))
    /\ []((last_call = "poll" /\ poll_decoded # <<>>)
             => LET last == poll_decoded[Len(poll_decoded)]
                IN  /\ left_speed = NearestScaled(_to_signed(last[2]))
                    /\ right_speed = NearestScaled(_to_signed(last[3])))

C32_Witness ==
    /\ last_call = "poll"
    /\ poll_decoded # <<>>
    /\ poll_decoded[Len(poll_decoded)] = BrakePacket
    /\ left_speed = 241
    /\ right_speed = -241

\* C33: the GamePad frame buffer never holds more than the receive-buffer cap of
\* 64 bytes, even when a start marker is never followed by an end marker.
C33_FrameBufferBounded == Len(_frame) <= MaxBufferBytes

\* the well-formed frames of a batch, in order
Accepted(frames) == SelectSeq(frames, LAMBDA f : f \in WellFormed)

\* C34: when one poll() of an idle decoder receives several frames, the decoded
\* state afterwards is that of the last well-formed frame among them, whatever
\* malformed or unknown-function frames follow it; with no well-formed frame the
\* state is what it was.
C34_LastWellFormedFrameWins ==
    \A frames \in Batches :
        (item = Concat(frames) /\ pad_wire = <<>> /\ item_reads = 1 /\ ~snap.in_frame)
            => /\ ~_in_frame
               /\ IF Accepted(frames) = <<>>
                  THEN SameEvent(snap)
                  ELSE SameEvent(Decoded(Accepted(frames)[Len(Accepted(frames))]))

\* a digital frame, then an analog frame, then a frame of an unknown function,
\* read by one poll(): the analog frame's state stays
C34_Witness ==
    /\ item = Concat(<<Up, StickForward, UnknownFunction>>)
    /\ pad_wire = <<>>
    /\ item_reads = 1
    /\ ~snap.in_frame
    /\ snap.mode = 0
    /\ mode = 1
    /\ value = 55
    /\ calls = <<Call("drive_forward", <<254, 255>>)>>

\* C37: once every byte of the 4-byte packets sent has been read, at whatever
\* point the polls split them, nothing is left unconsumed and flags, left_speed,
\* right_speed and counter are those of a whole packet decoded in one poll().
C37_SplitPacketDecodesTheSame ==
    (sent >= 1 /\ wire = <<>> /\ last_call = "poll" /\ last_reset_ms = -1)
        => /\ Unconsumed = <<>>
           /\ \E packet \in {FullSpeedPacket, BrakePacket} :
                  LET whole == _decode_packet(Command, packet, now)
                  IN  /\ flags = whole.flags
                      /\ left_speed = whole.left_speed
                      /\ right_speed = whole.right_speed
                      /\ counter = whole.counter

\* C38: the first send_ultrasonic() call on a freshly constructed controller
\* returns True and writes a packet whatever the tick counter reads, so once a
\* call has been made a packet has been written.
C38_FirstSendSucceeds == (send_ret # "none") => (uart_tx # <<>>)

\* C39: a poll() that returns False leaves flags, left_speed, right_speed,
\* counter and last_command_ms as they were; these change only in a poll() that
\* decodes a packet and in reset().
C39_FalsePollKeepsCommand ==
    [][/\ (last_call' = "poll" /\ poll_ret' = "False") => Command' = Command
       /\ (Command' # Command)
             => \/ last_call' = "reset"
                \/ last_call' = "poll" /\ poll_ret' = "True" /\ poll_decoded' # <<>>]_vars

\* a poll() that read part of a packet returned False with a command cached
C39_Witness ==
    /\ last_call = "poll"
    /\ poll_ret = "False"
    /\ Unconsumed # <<>>
    /\ left_speed = 241
    /\ flags = 1
    /\ counter = 6
    /\ now > last_command_ms

\* the entries of the current run that are pending in the buffer or written to
\* event_log.txt
EntriesKept(fs, buf) ==
    Len(buf) + Len(SelectSeq(OwnLines(fs, _LOG_PATH), LAMBDA l : l.text \in Messages))

\* C36: a log_event() during which the flash accepts writes returns with fewer
\* than BUFFER_MAX entries pending; flush() empties the buffer when the write
\* succeeds and leaves the buffer as it was when the write fails; no logging
\* call loses an entry: each is pending or in event_log.txt.
C36_BufferFlushedOrKept ==
    /\ [][\A message \in Messages, rename_ok \in BOOLEAN :
             LogEventOf(message, rename_ok, TRUE) => Len(log_buffer') < BUFFER_MAX]_vars
    /\ [][\A rename_ok \in BOOLEAN :
             /\ FlushOf(rename_ok, TRUE) => log_buffer' = <<>>
             /\ FlushOf(rename_ok, FALSE) => log_buffer' = log_buffer]_vars
    /\ [][LogEventFaulty
             => EntriesKept(files', log_buffer') = EntriesKept(files, log_buffer) + 1]_vars
    /\ [][(FlushFaulty \/ LogSeparatorFaulty)
             => EntriesKept(files', log_buffer') = EntriesKept(files, log_buffer)]_vars

\* a flush() whose write failed returned with the entries of a full buffer
\* still pending
C36_Witness ==
    /\ last_log = "flush"
    /\ ~last_write_ok
    /\ Len(log_buffer) >= BUFFER_MAX
    /\ \A i \in 1..Len(log_buffer) : log_buffer[i] = Line(run, "robot moving")

\* the messages and separators among the lines the current run wrote to
\* event_log.txt, in file order
Written ==
    LET own == OwnLines(files, _LOG_PATH)
        texts == [i \in 1..Len(own) |-> own[i].text]
    IN  SelectSeq(texts, LAMBDA t : t \in Messages \cup {SeparatorText})

SeparatorsUpTo(seq, i) == Cardinality({k \in 1..i : seq[k] = SeparatorText})
EventsAfter(seq, i) == Cardinality({k \in (i + 1)..Len(seq) : seq[k] \in Messages})

\* C40: the lines of event_log.txt are in call order: no more messages follow a
\* separator in the file than were logged after the log_separator() call that
\* wrote it.
C40_FileInCallOrder ==
    \/ cleared
    \/ \A i \in 1..Len(Written), j \in 1..Len(call_order) :
           \/ Written[i] # SeparatorText
           \/ call_order[j] # SeparatorText
           \/ SeparatorsUpTo(Written, i) # SeparatorsUpTo(call_order, j)
           \/ EventsAfter(Written, i) <= EventsAfter(call_order, j)

\* C31: after AIDriver.brake(), is_moving() is False and get_motor_speeds() is
\* (0, 0) whatever commands came before, and in every state each L298N motor
\* reports is_moving() exactly when its direction is not STOP.
C31_BrakeStops ==
    /\ (last_drive = "brake") => (~is_moving /\ get_motor_speeds = <<0, 0>>)
    /\ \A m \in {motor_right, motor_left} :
           L298N_is_moving(m) <=> (get_direction(m) # STOP)

\* brake() was called on a robot whose two motors had been set to speed 200
C31_Witness ==
    /\ last_drive = "brake"
    /\ driver_calls >= 2
    /\ motor_right._pwm_val = 200 * 257
    /\ motor_left._pwm_val = 200 * 257
    /\ motor_right.pin_brake = 1
    /\ motor_left.pin_brake = 1

\* C35: straight motion drives the motors with opposite polarity and rotation
\* with equal polarity: drive_forward leaves right BACKWARD and left FORWARD,
\* drive_backward right FORWARD and left BACKWARD, rotate_right both FORWARD,
\* rotate_left both BACKWARD, and in all four cases both motors are moving.
C35_WheelPolarity ==
    LET right == get_direction(motor_right)
        left == get_direction(motor_left)
        both_moving == L298N_is_moving(motor_right) /\ L298N_is_moving(motor_left)
    IN  /\ (last_drive = "drive_forward")
               => (right = BACKWARD /\ left = FORWARD /\ both_moving)
        /\ (last_drive = "drive_backward")
               => (right = FORWARD /\ left = BACKWARD /\ both_moving)
        /\ (last_drive = "rotate_right")
               => (right = FORWARD /\ left = FORWARD /\ both_moving)
        /\ (last_drive = "rotate_left")
               => (right = BACKWARD /\ left = BACKWARD /\ both_moving)

\* drive_forward was called after a rotation had left both motors FORWARD, and
\* it turned the right motor around
C35_Witness ==
    /\ last_drive = "drive_forward"
    /\ driver_calls >= 2
    /\ motor_right._direction = BACKWARD
    /\ motor_right.pin_direction = 0
    /\ motor_left._direction = FORWARD
    /\ motor_left.pin_direction = 1
    /\ Len(call_order) >= 2
    /\ call_order[Len(call_order) - 1] = _describe_rotation("right", 200)

====
